---- MODULE Spec2Model ----
(***************************************************************************)
(* The balance monitor and the 2-of-2 multisig forwarding pipeline of the  *)
(* React hooks useForwarder (src/src/hooks/useForwarder.ts) and            *)
(* useTronLink (src/src/hooks/useTronLink.ts).                             *)
(*                                                                         *)
(* JavaScript runs each handler to its next `await` without interruption,  *)
(* so every action below is one such segment: a timer callback, a click    *)
(* handler, or the continuation of an async function after one awaited     *)
(* call returned.                                                          *)
(*                                                                         *)
(* A useCallback closure reads the React state of the render that created  *)
(* it.  setInterval(monitorBalance, ...) keeps the monitorBalance of the   *)
(* render in which startMonitoring was invoked, and with it that render's  *)
(* lastBalance, isConnected, tronLinkWeb and approvingAddress (through     *)
(* forwardWithMultisig and signTransaction).  Such a captured environment  *)
(* is the record Env(...) below; tronWebRef, intervalRef are refs and are  *)
(* read live.                                                              *)
(*                                                                         *)
(* The activity log and the heartbeat counter are written by the handlers  *)
(* and decide nothing in them.  Every action states what its handler logs; *)
(* a behaviour follows the log only where `recording` holds, which Init    *)
(* fixes: the log tells histories apart that the rest of the state does    *)
(* not, so the specifications about forwarding leave it out and SpecLog    *)
(* follows it.                                                             *)
(***************************************************************************)
EXTENDS Integers, Sequences, FiniteSets, TLC

(* ------------------------------ bounds ------------------------------- *)
MaxBalance == 3
MaxDeposit == 2
MaxFee == 1
MaxPolls == 1
MaxRuns == 2
FeeReserve == 1
MaxLogged == 102
MaxPollEntries == 9
MaxBeatEntries == 13
MaxInFlight == 2
MaxRunEntries == 8
MaxDeposited == 3

(* ------------------------- program constants ------------------------- *)
maxRetries == 3
LogCap == 100
HeartbeatEvery == 20
SigLen == 65
MinSigPayload == 130
Null == -1

ReceivingAddress == "R"
Accounts == {"A", "B"}
NoAddress == ""

Min(a, b) == IF a <= b THEN a ELSE b
Max(a, b) == IF a >= b THEN a ELSE b

VARIABLES
  config,           \* what initTronWeb read from the environment
  recording,        \* the behaviour follows the activity log and heartbeats
  logs,             \* useForwarder state: the activity log, newest first
  heartbeatCountRef,
                    \* polls since the last heartbeat entry
  balance,          \* ledger: balance of the receiving account
  permission,       \* ledger: active_permission[0] of the receiving account
  winTronLink,      \* window.tronLink && window.tronWeb are injected
  winAddr,          \* window.tronWeb.defaultAddress.base58 ("" when absent)
  isAvailable,      \* useTronLink state
  tronLinkWeb,      \* useTronLink state tronWeb is non-null
  isConnected,      \* useTronLink state
  approvingAddress, \* useTronLink state
  tronWebRef,       \* tronWebRef.current is set (initTronWeb succeeded)
  multisigStatus,   \* useForwarder state
  verifying,        \* verifyMultisigSetup calls awaiting getAccount
  isRunning,        \* useForwarder state
  intervalRef,      \* a poll timer exists
  timerEnv,         \* environment captured by the timer's monitorBalance
  lastBalance,      \* useForwarder state (Null or a balance)
  polls,            \* monitorBalance calls awaiting getBalance, oldest first
  runs,             \* forwardWithMultisig invocations, by slot
  currentSteps,     \* useForwarder state: the step list shown
  obs,              \* history: the observation processed last (see Observed)
  timers,           \* intervals set with setInterval and not cleared
  totals            \* history: what was deposited and forwarded (see Totals)

walletVars == <<winTronLink, winAddr, isAvailable, tronLinkWeb, isConnected,
                approvingAddress>>
verifyVars == <<multisigStatus, verifying>>
monVars == <<isRunning, intervalRef, timers, timerEnv, lastBalance, polls>>
fixedVars == <<config, recording, tronWebRef>>
vars == <<fixedVars, logs, heartbeatCountRef, balance, permission, walletVars,
          verifyVars, monVars, runs, currentSteps, obs, totals>>

(* --------------------------- initTronWeb ----------------------------- *)
\* The configuration as initTronWeb judges it: the private key and the
\* receiving address are present, tronWeb.isAddress accepts the receiving
\* and the destination address, and the address derived from the private
\* key is the receiving address.
ValidConfig ==
  [hasPrivateKey |-> TRUE, hasReceivingAddress |-> TRUE,
   receivingIsAddress |-> TRUE, destinationIsAddress |-> TRUE,
   keyMatchesAddress |-> TRUE]

Configs ==
  { ValidConfig,
    [ValidConfig EXCEPT !.hasPrivateKey = FALSE],
    [ValidConfig EXCEPT !.hasReceivingAddress = FALSE,
                        !.receivingIsAddress = FALSE],
    [ValidConfig EXCEPT !.receivingIsAddress = FALSE],
    [ValidConfig EXCEPT !.destinationIsAddress = FALSE],
    [ValidConfig EXCEPT !.keyMatchesAddress = FALSE] }

\* An entry of the log; id stands for Date.now(): the ordinal of the
\* emission since the log was last empty.
LogEntry(id, level, message) ==
  [id |-> id, level |-> level, message |-> message]

\* What initTronWeb leaves behind: whether tronWebRef.current is set, and
\* the entry it logs.
initTronWebAcceptsMismatch(cfg) ==
  IF ~cfg.hasPrivateKey \/ ~cfg.hasReceivingAddress
  THEN [ref |-> FALSE, level |-> "ERROR", message |-> "Missing configuration"]
  ELSE IF ~cfg.receivingIsAddress \/ ~cfg.destinationIsAddress
  THEN [ref |-> FALSE, level |-> "ERROR",
        message |-> "Failed to initialize TronWeb"]
  ELSE [ref |-> TRUE, level |-> "SUCCESS",
        message |-> "TronWeb initialized successfully"]

initTronWeb(cfg) ==
  IF ~cfg.hasPrivateKey \/ ~cfg.hasReceivingAddress
  THEN [ref |-> FALSE, level |-> "ERROR", message |-> "Missing configuration"]
  ELSE IF ~cfg.receivingIsAddress \/ ~cfg.destinationIsAddress
          \/ ~cfg.keyMatchesAddress
  THEN [ref |-> FALSE, level |-> "ERROR",
        message |-> "Failed to initialize TronWeb"]
  ELSE [ref |-> TRUE, level |-> "SUCCESS",
        message |-> "TronWeb initialized successfully"]

(* ------------------------------ addLog ------------------------------- *)
Take(seq, n) == SubSeq(seq, 1, Min(n, Len(seq)))

NextLogId(prev) == IF prev = <<>> THEN 1 ELSE prev[1].id + 1

\* setLogs(prev => [logEntry, ...prev].slice(0, 100))
addLogOneTooMany(prev, level, message) ==
  Take(<<LogEntry(NextLogId(prev), level, message)>> \o prev, LogCap + 1)

addLog(prev, level, message) ==
  Take(<<LogEntry(NextLogId(prev), level, message)>> \o prev, LogCap)

\* The addLog calls of one handler step, in the order they are made; each
\* is a pair <<level, message>>.
RECURSIVE Emit(_, _)
Emit(prev, entries) ==
  IF entries = <<>> THEN prev
  ELSE Emit(addLog(prev, entries[1][1], entries[1][2]), Tail(entries))

Logged(entries) == logs' = IF recording THEN Emit(logs, entries) ELSE logs

(* --------------------------- ledger data ----------------------------- *)
NoPermission == [present |-> FALSE, threshold |-> 0, keys |-> <<>>]
Permissions ==
  { NoPermission,
    [present |-> TRUE, threshold |-> 1, keys |-> <<"R">>],
    [present |-> TRUE, threshold |-> 1, keys |-> <<"A", "R">>],
    [present |-> TRUE, threshold |-> 2, keys |-> <<"A", "R">>] }

(* -------------------- useTronLink: wallet connection ----------------- *)
\* The effects of useForwarder that depend on approvingAddress run after a
\* render in which it changed; each calls verifyMultisigSetup, which returns
\* at once unless tronWebRef.current and approvingAddress are both set.
VerifyEffect(newAddress) ==
  verifying' = IF newAddress # approvingAddress /\ newAddress # NoAddress
                  /\ tronWebRef
               THEN verifying \cup {newAddress}
               ELSE verifying

\* The wallet extension injects window.tronLink and window.tronWeb.
Inject(a) ==
  /\ ~winTronLink
  /\ winTronLink' = TRUE
  /\ winAddr' = a
  /\ UNCHANGED <<isAvailable, tronLinkWeb, isConnected, approvingAddress>>
  /\ UNCHANGED <<logs, balance, permission, obs, heartbeatCountRef, fixedVars,
                 totals, verifyVars, monVars, runs, currentSteps>>

checkTronLink ==
  /\ IF winTronLink
     THEN /\ isAvailable' = TRUE
          /\ tronLinkWeb' = TRUE
          /\ IF winAddr # NoAddress
             THEN /\ isConnected' = TRUE
                  /\ approvingAddress' = winAddr
             ELSE UNCHANGED <<isConnected, approvingAddress>>
     ELSE /\ isAvailable' = FALSE
          /\ UNCHANGED <<tronLinkWeb, isConnected, approvingAddress>>
  /\ VerifyEffect(approvingAddress')
  /\ UNCHANGED <<winTronLink, winAddr>>
  /\ UNCHANGED <<logs, balance, permission, obs, heartbeatCountRef, fixedVars,
                 totals, multisigStatus, monVars, runs, currentSteps>>

\* The wallet switches to account a ("" when it locks) and posts the
\* accountsChanged message; the listener exists once isAvailable was rendered.
handleAccountChange(a) ==
  /\ winTronLink
  /\ a # winAddr
  /\ winAddr' = a
  /\ IF isAvailable
     THEN IF a # NoAddress
          THEN /\ approvingAddress' = a
               /\ UNCHANGED isConnected
          ELSE /\ isConnected' = FALSE
               /\ approvingAddress' = NoAddress
     ELSE UNCHANGED <<isConnected, approvingAddress>>
  /\ VerifyEffect(approvingAddress')
  /\ UNCHANGED <<winTronLink, isAvailable, tronLinkWeb>>
  /\ UNCHANGED <<logs, balance, permission, obs, heartbeatCountRef, fixedVars,
                 totals, multisigStatus, monVars, runs, currentSteps>>

\* connect(): tron_requestAccounts answers (granted) or throws; the address
\* the wallet then shows is taken over.
connect(granted) ==
  /\ isAvailable
  /\ IF granted /\ winAddr # NoAddress
     THEN /\ isConnected' = TRUE
          /\ approvingAddress' = winAddr
          /\ tronLinkWeb' = TRUE
     ELSE UNCHANGED <<isConnected, approvingAddress, tronLinkWeb>>
  /\ VerifyEffect(approvingAddress')
  /\ UNCHANGED <<winTronLink, winAddr, isAvailable>>
  /\ UNCHANGED <<logs, balance, permission, obs, heartbeatCountRef, fixedVars,
                 totals, multisigStatus, monVars, runs, currentSteps>>

disconnect ==
  /\ isConnected' = FALSE
  /\ approvingAddress' = NoAddress
  /\ tronLinkWeb' = FALSE
  /\ VerifyEffect(approvingAddress')
  /\ UNCHANGED <<winTronLink, winAddr, isAvailable>>
  /\ UNCHANGED <<logs, balance, permission, obs, heartbeatCountRef, fixedVars,
                 totals, multisigStatus, monVars, runs, currentSteps>>

(* ----------------------- verifyMultisigSetup ------------------------- *)
InitialStatus ==
  [isConfigured |-> FALSE, threshold |-> 0, keyCount |-> 0,
   hasReceivingKey |-> FALSE, hasApprovingKey |-> FALSE]

HasKey(keys, address) == \E k \in DOMAIN keys : keys[k] = address

ComputeStatusOneOfOne(perm, approving) ==
  IF perm.present
  THEN [isConfigured |-> perm.threshold >= 1 /\ Len(perm.keys) >= 1,
        threshold |-> perm.threshold,
        keyCount |-> Len(perm.keys),
        hasReceivingKey |-> HasKey(perm.keys, ReceivingAddress),
        hasApprovingKey |-> HasKey(perm.keys, approving)]
  ELSE InitialStatus

ComputeStatus(perm, approving) ==
  IF perm.present
  THEN [isConfigured |-> perm.threshold >= 2 /\ Len(perm.keys) >= 2,
        threshold |-> perm.threshold,
        keyCount |-> Len(perm.keys),
        hasReceivingKey |-> HasKey(perm.keys, ReceivingAddress),
        hasApprovingKey |-> HasKey(perm.keys, approving)]
  ELSE InitialStatus

\* getAccount of a pending verifyMultisigSetup(a) returns (ok) or throws.
verifyMultisigSetup(a, ok) ==
  /\ a \in verifying
  /\ verifying' = verifying \ {a}
  /\ multisigStatus' = IF ok THEN ComputeStatus(permission, a)
                       ELSE multisigStatus
  /\ Logged(IF ~ok THEN <<<<"ERROR", "Failed to verify multisig setup">>>>
            ELSE IF ComputeStatus(permission, a).isConfigured
            THEN <<<<"SUCCESS", "2-of-2 multisig verification passed">>>>
            ELSE <<<<"WARNING", "Multisig not properly configured">>>>)
  /\ UNCHANGED <<balance, permission, obs, heartbeatCountRef, walletVars,
                 fixedVars, totals, monVars, runs, currentSteps>>

(* --------------------------- closures -------------------------------- *)
\* What the callbacks of one render read from React state.
Env(lb, conn, web, addr) ==
  [lastBalance |-> lb, isConnected |-> conn, tronLinkWeb |-> web,
   approvingAddress |-> addr]

NoEnv == Env(Null, FALSE, FALSE, NoAddress)

CurrentEnv == Env(lastBalance, isConnected, tronLinkWeb, approvingAddress)

\* forwardWithMultisig does not read lastBalance.
ForwardEnv(env) == [env EXCEPT !.lastBalance = Null]

(* ------------------------- forwarding steps -------------------------- *)
StepIds ==
  <<"detect", "create", "sign1", "sign2", "validate", "broadcast", "confirm">>

createForwardingSteps ==
  [k \in DOMAIN StepIds |-> [id |-> StepIds[k], status |-> "pending"]]

updateStep(prev, stepId, status) ==
  [k \in DOMAIN prev |->
     IF prev[k].id = stepId THEN [prev[k] EXCEPT !.status = status]
     ELSE prev[k]]

\* The catch block's setCurrentSteps: every active step becomes error.
FailActiveSteps(prev) ==
  [k \in DOMAIN prev |->
     IF prev[k].status = "active" THEN [prev[k] EXCEPT !.status = "error"]
     ELSE prev[k]]

(* ---------------------- forwardWithMultisig -------------------------- *)
IdleRun ==
  [pc |-> "idle", env |-> NoEnv, receivedAmount |-> 0, attempts |-> 0,
   currentBalance |-> 0, forwardAmount |-> 0, keyIndex |-> 0,
   signed |-> [kind |-> "none", len |-> Null], outcome |-> "none",
   \* bookkeeping of the calls issued, for the properties below
   nStarted |-> 0, built |-> FALSE, bcast |-> FALSE, signerBad |-> FALSE,
   everBcast |-> FALSE, otherFail |-> FALSE, duringRun |-> FALSE,
   nSign |-> 0]

Slots == 1..MaxRuns

\* An invocation that passed the connection guard and has not returned.
Active(r) == r.pc \notin {"idle", "scheduled", "done"}

Free(r) == r.pc \in {"idle", "done"}

LoopContinuesOffByOne(attempts) == attempts <= maxRetries

LoopContinues(attempts) == attempts < maxRetries

\* The invocation returns: its locals are gone, the bookkeeping stays.
Return(r, outcome) ==
  [IdleRun EXCEPT !.pc = "done", !.outcome = outcome,
                  !.attempts = r.attempts, !.nStarted = r.nStarted,
                  !.built = r.built, !.bcast = r.bcast, !.signed = r.signed,
                  !.signerBad = r.signerBad, !.everBcast = r.everBcast,
                  !.otherFail = r.otherFail, !.nSign = r.nSign]

ForwardAmountNoReserve(receivedAmount, currentBalance) ==
  Min(receivedAmount, currentBalance)

ForwardAmount(receivedAmount, currentBalance) ==
  Min(receivedAmount, Max(0, currentBalance - FeeReserve))

LoopHeadResumes(r) ==
  IF LoopContinues(r.attempts)
  THEN [r EXCEPT !.pc = IF r.built THEN "getAccount" ELSE "getBalance",
                 !.nStarted = @ + 1, !.signerBad = FALSE]
  ELSE Return(r, "failed")

\* The while test and, when it passes, the attempt's code up to the first
\* await (the balance query of updateReceivingBalance).
LoopHead(r) ==
  IF LoopContinues(r.attempts)
  THEN [r EXCEPT !.pc = "getBalance", !.currentBalance = 0,
                 !.forwardAmount = 0, !.keyIndex = 0,
                 !.signed = [kind |-> "none", len |-> Null],
                 !.nStarted = @ + 1, !.built = FALSE, !.bcast = FALSE,
                 !.signerBad = FALSE]
  ELSE Return(r, "failed")

LoopHeadSteps(r, steps) ==
  IF LoopContinues(r.attempts) THEN updateStep(steps, "detect", "completed")
  ELSE steps

LoopHeadLog(r) ==
  IF LoopContinues(r.attempts)
  THEN <<<<"INFO", "STARTING MULTISIG FORWARD PROCESS">>>>
  ELSE <<<<"ERROR", "MULTISIG FORWARD FAILED">>>>

\* The catch block, and what follows it without an await.
Catch(r) ==
  LET failed == [r EXCEPT !.attempts = @ + 1,
                          !.otherFail = @ \/ ~r.signerBad] IN
  IF failed.attempts < maxRetries
  THEN [failed EXCEPT !.pc = "retryDelay"]
  ELSE LoopHead(failed)

CatchSteps(r, steps) ==
  LET failed == [r EXCEPT !.attempts = @ + 1] IN
  IF failed.attempts < maxRetries
  THEN FailActiveSteps(steps)
  ELSE LoopHeadSteps(failed, FailActiveSteps(steps))

CatchLogOnlyWhenExhausted(r) ==
  LET failed == [r EXCEPT !.attempts = @ + 1] IN
  IF failed.attempts < maxRetries THEN <<<<"INFO", "Retrying">>>>
  ELSE <<<<"ERROR", "Multisig forward attempt failed">>>>
       \o LoopHeadLog(failed)

CatchLog(r) ==
  LET failed == [r EXCEPT !.attempts = @ + 1] IN
  <<<<"ERROR", "Multisig forward attempt failed">>>>
  \o (IF failed.attempts < maxRetries THEN <<<<"INFO", "Retrying">>>>
      ELSE LoopHeadLog(failed))

\* An exception in run i, whose locals are r, whose steps show `steps` and
\* whose step has logged `entries` before it.
Throw(i, r, steps, entries) ==
  /\ runs' = [runs EXCEPT ![i] = Catch(r)]
  /\ currentSteps' = CatchSteps(r, steps)
  /\ Logged(entries \o CatchLog(r))

\* The setTimeout of monitorBalance fires: forwardWithMultisig is entered.
forwardWithMultisig(i) ==
  /\ runs[i].pc = "scheduled"
  /\ LET r == runs[i] IN
     IF ~tronWebRef \/ ~r.env.isConnected \/ ~r.env.tronLinkWeb
        \/ r.env.approvingAddress = NoAddress
     THEN /\ runs' = [runs EXCEPT ![i] = Return(r, "refused")]
          /\ UNCHANGED currentSteps
          /\ Logged(<<<<"ERROR", "Missing required connections">>>>)
     ELSE /\ runs' = [runs EXCEPT ![i] =
                        LoopHead([r EXCEPT !.attempts = 0,
                                           !.duringRun = FALSE])]
          /\ currentSteps' = LoopHeadSteps([r EXCEPT !.attempts = 0],
                                           createForwardingSteps)
          /\ Logged(LoopHeadLog([r EXCEPT !.attempts = 0]))
  /\ UNCHANGED <<balance, permission, obs, heartbeatCountRef, walletVars,
                 fixedVars, totals, verifyVars, monVars>>

\* delay(retryDelay) is over.
afterRetryDelay(i) ==
  /\ runs[i].pc = "retryDelay"
  /\ runs' = [runs EXCEPT ![i] = LoopHead(runs[i])]
  /\ currentSteps' = LoopHeadSteps(runs[i], currentSteps)
  /\ Logged(LoopHeadLog(runs[i]))
  /\ UNCHANGED <<balance, permission, obs, heartbeatCountRef, walletVars,
                 fixedVars, totals, verifyVars, monVars>>

BalanceQueryFailedSilently == <<>>

\* What updateReceivingBalance logs when its query throws.
BalanceQueryFailed ==
  <<<<"ERROR", "Failed to update receiving wallet balance">>>>

\* updateReceivingBalance returns the balance, or null when the query threw.
afterGetBalance(i, ok) ==
  /\ runs[i].pc = "getBalance"
  /\ LET r == runs[i]
         currentBalance == IF ok THEN balance ELSE Null
         forwardAmount == ForwardAmount(r.receivedAmount, currentBalance)
     IN
     IF currentBalance = Null \/ currentBalance = 0
     THEN Throw(i, [r EXCEPT !.currentBalance = currentBalance], currentSteps,
                IF ok THEN <<>> ELSE BalanceQueryFailed)
     ELSE IF forwardAmount <= 0
     THEN /\ runs' = [runs EXCEPT ![i] =
                        [Return(r, "insufficient") EXCEPT
                           !.receivedAmount = r.receivedAmount,
                           !.currentBalance = currentBalance,
                           !.forwardAmount = forwardAmount]]
          /\ currentSteps' = updateStep(currentSteps, "detect", "error")
          /\ Logged(<<<<"WARNING", "Insufficient balance after fee reserve">>>>)
     ELSE /\ runs' = [runs EXCEPT ![i] =
                        [r EXCEPT !.pc = "sendTrx", !.built = TRUE,
                                  !.currentBalance = currentBalance,
                                  !.forwardAmount = forwardAmount]]
          /\ currentSteps' = updateStep(currentSteps, "create", "active")
          /\ UNCHANGED logs
  /\ UNCHANGED <<balance, permission, obs, heartbeatCountRef, walletVars,
                 fixedVars, totals, verifyVars, monVars>>

\* transactionBuilder.sendTrx returns the unsigned transaction, or throws.
afterSendTrx(i, ok) ==
  /\ runs[i].pc = "sendTrx"
  /\ IF ok
     THEN /\ runs' = [runs EXCEPT ![i].pc = "getAccount"]
          /\ currentSteps' = updateStep(updateStep(currentSteps, "create",
                                 "completed"), "sign1", "active")
          /\ Logged(<<<<"INFO", "Multisig transaction created">>>>)
     ELSE Throw(i, runs[i], currentSteps, <<>>)
  /\ UNCHANGED <<balance, permission, obs, heartbeatCountRef, walletVars,
                 fixedVars, totals, verifyVars, monVars>>

ReceivingKeyIndexAssumesFirst(perm) == 0

\* Position of the receiving address in the permission's key list, else 0.
ReceivingKeyIndex(perm) ==
  IF perm.present /\ HasKey(perm.keys, ReceivingAddress)
  THEN (CHOOSE k \in DOMAIN perm.keys :
          /\ perm.keys[k] = ReceivingAddress
          /\ \A j \in 1..(k - 1) : perm.keys[j] # ReceivingAddress) - 1
  ELSE 0

afterGetAccountAsksWalletFirst(i, ok) ==
  /\ runs[i].pc = "getAccount"
  /\ IF ok
     THEN /\ runs' = [runs EXCEPT ![i].pc = "signTransaction",
                                  ![i].nSign = @ + 1]
          /\ UNCHANGED <<currentSteps, logs>>
     ELSE Throw(i, runs[i], currentSteps, <<>>)
  /\ UNCHANGED <<balance, permission, obs, heartbeatCountRef, walletVars,
                 fixedVars, totals, verifyVars, monVars>>

\* trx.getAccount returns, or throws.
afterGetAccount(i, ok) ==
  /\ runs[i].pc = "getAccount"
  /\ IF ok
     THEN /\ runs' = [runs EXCEPT ![i].pc = "multiSign",
                                  ![i].keyIndex = ReceivingKeyIndex(permission)]
          /\ UNCHANGED <<currentSteps, logs>>
     ELSE Throw(i, runs[i], currentSteps, <<>>)
  /\ UNCHANGED <<balance, permission, obs, heartbeatCountRef, walletVars,
                 fixedVars, totals, verifyVars, monVars>>

\* trx.multiSign returns the partially signed transaction, or throws; then
\* signTransaction is entered with the closure's tronWeb and isConnected.
afterMultiSign(i, ok) ==
  /\ runs[i].pc = "multiSign"
  /\ IF ok
     THEN LET steps == updateStep(updateStep(currentSteps, "sign1",
                                     "completed"), "sign2", "active")
              entries == <<<<"SIGNATURE", "First signature completed">>,
                           <<"SIGNATURE", "Requesting second signature">>>>
          IN
          IF ~runs[i].env.tronLinkWeb \/ ~runs[i].env.isConnected
          THEN Throw(i, runs[i], steps, entries)
          ELSE /\ runs' = [runs EXCEPT ![i].pc = "signTransaction",
                                       ![i].nSign = @ + 1]
               /\ currentSteps' = steps
               /\ Logged(entries)
     ELSE Throw(i, runs[i], currentSteps, <<>>)
  /\ UNCHANGED <<balance, permission, obs, heartbeatCountRef, walletVars,
                 fixedVars, totals, verifyVars, monVars>>

\* What tronWeb.trx.sign of the wallet can give: it throws (the user
\* rejected, the wallet failed), or it returns nothing, or a transaction
\* whose signature field is absent (Null) or has some length.
SignaturePayloads == {Null, 65, 129, 130, 195}

SignerResults ==
  {[kind |-> "throw", len |-> Null], [kind |-> "null", len |-> Null]}
  \cup {[kind |-> "tx", len |-> n] : n \in SignaturePayloads}

\* !fullySigned.signature || fullySigned.signature.length < 130
SignatureFormatOK(len) == len # Null /\ len >= MinSigPayload

\* signature.length / 65 >= 2, over the rationals
HasRequiredSignatures(len) == len # Null /\ len >= 2 * SigLen

\* The wallet cancelled, failed, or gave back less than two signatures.
SignerResultBad(res) ==
  res.kind # "tx" \/ res.len = Null \/ res.len \div 65 < 2

\* The code after `await signTransaction(firstSigned)`, which goes on to
\* validate when `returned`, and on to broadcast when `validated`.
SignStep(i, res, returned, validated) ==
  /\ runs[i].pc = "signTransaction"
  /\ LET r == [runs[i] EXCEPT !.signed = res,
                              !.signerBad = SignerResultBad(res)]
         steps == updateStep(updateStep(currentSteps, "sign2", "completed"),
                             "validate", "active")
     IN
     IF ~returned
     THEN Throw(i, r, currentSteps, <<>>)
     ELSE IF ~validated
     THEN Throw(i, r, steps, <<<<"SIGNATURE", "Second signature completed">>>>)
     ELSE /\ runs' = [runs EXCEPT ![i] =
                        [r EXCEPT !.pc = "sendRawTransaction",
                                  !.bcast = TRUE, !.everBcast = TRUE]]
          /\ currentSteps' = updateStep(updateStep(steps, "validate",
                                 "completed"), "broadcast", "active")
          /\ Logged(<<<<"SIGNATURE", "Second signature completed">>,
                      <<"SUCCESS", "DUAL SIGNATURE COMPLETE">>,
                      <<"BROADCAST", "Broadcasting multisig transaction">>>>)
  /\ UNCHANGED <<balance, permission, obs, heartbeatCountRef, walletVars,
                 fixedVars, totals, verifyVars, monVars>>

afterSignTransactionKeepsGoing(i, res) ==
  SignStep(i, res, TRUE, res.kind # "tx" \/ HasRequiredSignatures(res.len))

afterSignTransactionUnvalidated(i, res) ==
  SignStep(i, res, res.kind = "tx", TRUE)

afterSignTransactionNoFormatCheck(i, res) ==
  SignStep(i, res, res.kind = "tx", HasRequiredSignatures(res.len))

\* signTransaction returned, or threw.
afterSignTransaction(i, res) ==
  SignStep(i, res, res.kind = "tx" /\ SignatureFormatOK(res.len),
           HasRequiredSignatures(res.len))

\* sendRawTransaction returns: the ledger accepted the transfer and took
\* the amount and a fee, or it reported a rejection, or the call threw.
afterSendRawTransaction(i, res, fee) ==
  /\ runs[i].pc = "sendRawTransaction"
  /\ IF res = "accepted"
     THEN /\ runs[i].forwardAmount + fee <= balance
          /\ balance' = balance - runs[i].forwardAmount - fee
          /\ totals' = IF totals.counting
                       THEN [totals EXCEPT
                               !.forwarded = @ + runs[i].forwardAmount]
                       ELSE totals
          /\ runs' = [runs EXCEPT ![i].pc = "confirm"]
          /\ currentSteps' = updateStep(updateStep(currentSteps, "broadcast",
                                 "completed"), "confirm", "active")
          /\ Logged(<<<<"BROADCAST", "Transaction broadcasted successfully">>>>)
     ELSE /\ fee = 0
          /\ UNCHANGED <<balance, totals>>
          /\ Throw(i, runs[i], currentSteps, <<>>)
  /\ UNCHANGED <<permission, obs, heartbeatCountRef, walletVars, fixedVars,
                 verifyVars, monVars>>

afterConfirmBalanceRetries(i, ok) ==
  /\ runs[i].pc = "confirm"
  /\ IF ok
     THEN /\ runs' = [runs EXCEPT ![i] = Return(runs[i], "completed")]
          /\ currentSteps' = updateStep(currentSteps, "confirm", "completed")
          /\ lastBalance' = balance
          /\ Logged(<<<<"SUCCESS", "MULTISIG FORWARD COMPLETED SUCCESSFULLY">>>>)
     ELSE /\ Throw(i, runs[i], currentSteps, BalanceQueryFailed)
          /\ UNCHANGED lastBalance
  /\ UNCHANGED <<balance, permission, obs, heartbeatCountRef, walletVars,
                 fixedVars, totals, verifyVars, isRunning, intervalRef, timers,
                 timerEnv, polls>>

\* delay(5000) is over and updateReceivingBalance returned.
afterConfirmBalance(i, ok) ==
  /\ runs[i].pc = "confirm"
  /\ IF ok
     THEN /\ runs' = [runs EXCEPT ![i] = Return(runs[i], "completed")]
          /\ currentSteps' = updateStep(currentSteps, "confirm", "completed")
          /\ lastBalance' = balance
          /\ Logged(<<<<"SUCCESS", "MULTISIG FORWARD COMPLETED SUCCESSFULLY">>>>)
     ELSE /\ runs' = [runs EXCEPT ![i] = Return(runs[i], "unconfirmed")]
          /\ UNCHANGED <<currentSteps, lastBalance>>
          /\ Logged(BalanceQueryFailed)
  /\ UNCHANGED <<balance, permission, obs, heartbeatCountRef, walletVars,
                 fixedVars, totals, verifyVars, isRunning, intervalRef, timers,
                 timerEnv, polls>>

(* ------------------------- balance monitor --------------------------- *)
NoObservation ==
  [prev |-> Null, new |-> Null, amount |-> 0, restart |-> FALSE]

FreeSlot == CHOOSE i \in Slots : Free(runs[i]) /\ \A j \in 1..(i - 1) : ~Free(runs[j])

\* The entry with which startMonitoring refuses, <<>> when it does not.
StartRefusal ==
  IF ~tronWebRef
  THEN <<<<"ERROR", "Cannot start monitoring: TronWeb not initialized">>>>
  ELSE IF ~isConnected \/ approvingAddress = NoAddress
  THEN <<<<"ERROR", "Cannot start monitoring: TronLink not connected">>>>
  ELSE IF ~multisigStatus.isConfigured
  THEN <<<<"ERROR", "Cannot start monitoring: Multisig not configured">>>>
  ELSE <<>>

startMonitoringWaitsForInterval ==
  /\ IF StartRefusal # <<>>
     THEN /\ UNCHANGED <<monVars, heartbeatCountRef>>
          /\ Logged(StartRefusal)
     ELSE /\ Len(polls) < MaxPolls
          /\ lastBalance' = Null
          /\ heartbeatCountRef' = 0
          /\ UNCHANGED polls
          /\ timers' = timers - (IF intervalRef THEN 1 ELSE 0) + 1
          /\ intervalRef' = TRUE
          /\ timerEnv' = CurrentEnv
          /\ isRunning' = TRUE
          /\ Logged(<<<<"SUCCESS", "MULTISIG MONITORING STARTED">>>>)
  /\ UNCHANGED <<balance, permission, walletVars, fixedVars, totals, verifyVars,
                 runs, currentSteps>>

startMonitoringKeepsOldTimer ==
  /\ IF StartRefusal # <<>>
     THEN /\ UNCHANGED <<monVars, heartbeatCountRef>>
          /\ Logged(StartRefusal)
     ELSE /\ Len(polls) < MaxPolls
          /\ lastBalance' = Null
          /\ heartbeatCountRef' = 0
          /\ polls' = Append(polls, CurrentEnv)
          /\ timers' = timers + 1
          /\ intervalRef' = TRUE
          /\ timerEnv' = CurrentEnv
          /\ isRunning' = TRUE
          /\ Logged(<<<<"SUCCESS", "MULTISIG MONITORING STARTED">>>>)
  /\ UNCHANGED <<balance, permission, walletVars, fixedVars, totals,
                 verifyVars, runs, currentSteps>>

startMonitoring ==
  /\ IF StartRefusal # <<>>
     THEN /\ UNCHANGED <<monVars, heartbeatCountRef>>
          /\ Logged(StartRefusal)
     ELSE /\ Len(polls) < MaxPolls
          /\ lastBalance' = Null
          /\ heartbeatCountRef' = 0
          /\ polls' = Append(polls, CurrentEnv)
          /\ timers' = timers - (IF intervalRef THEN 1 ELSE 0) + 1
          /\ intervalRef' = TRUE
          /\ timerEnv' = CurrentEnv
          /\ isRunning' = TRUE
          /\ Logged(<<<<"SUCCESS", "MULTISIG MONITORING STARTED">>>>)
  /\ UNCHANGED <<balance, permission, walletVars, fixedVars, totals, verifyVars,
                 runs, currentSteps>>

stopMonitoringKeepsTimer ==
  /\ UNCHANGED <<intervalRef, timers>>
  /\ isRunning' = FALSE
  /\ currentSteps' = <<>>
  /\ Logged(<<<<"INFO", "MULTISIG MONITORING STOPPED">>>>)
  /\ UNCHANGED <<timerEnv, lastBalance, polls>>
  /\ UNCHANGED <<balance, permission, obs, heartbeatCountRef, walletVars,
                 fixedVars, totals, verifyVars, runs>>

stopMonitoring ==
  /\ timers' = timers - (IF intervalRef THEN 1 ELSE 0)
  /\ intervalRef' = FALSE
  /\ isRunning' = FALSE
  /\ currentSteps' = <<>>
  /\ Logged(<<<<"INFO", "MULTISIG MONITORING STOPPED">>>>)
  /\ UNCHANGED <<timerEnv, lastBalance, polls>>
  /\ UNCHANGED <<balance, permission, obs, heartbeatCountRef, walletVars,
                 fixedVars, totals, verifyVars, runs>>

\* The interval fires: monitorBalance runs up to its balance query.
TickWaitsForSigner ==
  /\ intervalRef
  /\ tronWebRef
  /\ \A i \in Slots : runs[i].pc # "signTransaction"
  /\ Len(polls) < MaxPolls
  /\ polls' = Append(polls, timerEnv)
  /\ UNCHANGED <<isRunning, intervalRef, timers, timerEnv, lastBalance>>
  /\ UNCHANGED <<logs, balance, permission, obs, heartbeatCountRef,
                 walletVars, fixedVars, totals, verifyVars, runs, currentSteps>>

\* It fires whether or not an earlier monitorBalance has returned; `limit`
\* bounds the queries a behaviour has in flight.
TickWithin(limit) ==
  /\ intervalRef
  /\ tronWebRef
  /\ Len(polls) < limit
  /\ polls' = Append(polls, timerEnv)
  /\ UNCHANGED <<isRunning, intervalRef, timers, timerEnv, lastBalance>>
  /\ UNCHANGED <<logs, balance, permission, obs, heartbeatCountRef,
                 walletVars, fixedVars, totals, verifyVars, runs, currentSteps>>

Tick == TickWithin(MaxPolls)

Remove(seq, k) == SubSeq(seq, 1, k - 1) \o SubSeq(seq, k + 1, Len(seq))

\* The balance query of the k-th pending monitorBalance returned.
monitorBalance(k, ok) ==
  /\ k \in DOMAIN polls
  /\ polls' = Remove(polls, k)
  /\ LET env == polls[k]
         currentBalance == IF ok THEN balance ELSE Null
         beats == heartbeatCountRef + 1
         heartbeat == IF beats >= HeartbeatEvery
                      THEN <<<<"INFO", "Monitoring active">>>> ELSE <<>>
     IN
     /\ heartbeatCountRef' =
          IF ~ok \/ ~recording THEN heartbeatCountRef
          ELSE IF beats >= HeartbeatEvery THEN 0 ELSE beats
     /\ Logged(IF currentBalance = Null THEN BalanceQueryFailed
               ELSE IF env.lastBalance = Null
               THEN heartbeat \o <<<<"INFO", "Initial balance set">>>>
               ELSE IF currentBalance > env.lastBalance
               THEN heartbeat \o <<<<"DETECTION", "TRX PAYMENT DETECTED">>>>
               ELSE IF currentBalance < env.lastBalance
               THEN heartbeat \o <<<<"BALANCE", "Balance decreased">>>>
               ELSE heartbeat)
     /\ IF currentBalance = Null
        THEN UNCHANGED <<lastBalance, runs>>
        ELSE IF env.lastBalance = Null
        THEN /\ lastBalance' = currentBalance
             /\ UNCHANGED runs
        ELSE IF currentBalance > env.lastBalance
        THEN LET receivedAmount == currentBalance - env.lastBalance IN
             /\ \E i \in Slots : Free(runs[i])
             /\ lastBalance' = currentBalance
             /\ runs' = [runs EXCEPT ![FreeSlot] =
                           [IdleRun EXCEPT !.pc = "scheduled",
                                           !.env = ForwardEnv(env),
                                           !.receivedAmount = receivedAmount,
                                           !.duringRun =
                                             \E j \in Slots : Active(runs[j])]]
        ELSE IF currentBalance < env.lastBalance
        THEN /\ lastBalance' = currentBalance
             /\ UNCHANGED runs
        ELSE UNCHANGED <<lastBalance, runs>>
  /\ totals' = IF totals.counting /\ ok /\ polls[k].lastBalance = Null
               THEN [totals EXCEPT !.seeded = TRUE]
               ELSE totals
  /\ UNCHANGED <<isRunning, intervalRef, timers, timerEnv>>
  /\ UNCHANGED <<balance, permission, walletVars, fixedVars, verifyVars,
                 currentSteps>>

\* setLogs([]) and then addLog.
clearLogsKeepsHistory ==
  /\ logs' = IF recording THEN addLog(logs, "INFO", "Log history cleared")
             ELSE logs
  /\ UNCHANGED <<balance, permission, obs, heartbeatCountRef, walletVars,
                 fixedVars, totals, verifyVars, monVars, runs, currentSteps>>

clearLogs ==
  /\ logs' = IF recording THEN addLog(<<>>, "INFO", "Log history cleared")
             ELSE logs
  /\ UNCHANGED <<balance, permission, obs, heartbeatCountRef, walletVars,
                 fixedVars, totals, verifyVars, monVars, runs, currentSteps>>

(* ---------------------------- environment ---------------------------- *)
\* Somebody pays d into the receiving account.
Deposit(d) ==
  /\ balance + d <= MaxBalance
  /\ balance' = balance + d
  /\ totals' = IF totals.counting /\ totals.seeded
               THEN [totals EXCEPT !.deposited = @ + d]
               ELSE totals
  /\ UNCHANGED <<logs, permission, obs, heartbeatCountRef, walletVars,
                 fixedVars, verifyVars, monVars, runs, currentSteps>>

(* --------------------------- specification --------------------------- *)
\* totals is followed only where `counting`: whether a poll has seeded the
\* baseline, and from then on the sum of the deposits and the sum of the
\* amounts of the accepted broadcasts.
NoTotals ==
  [counting |-> FALSE, seeded |-> FALSE, deposited |-> 0, forwarded |-> 0]

\* The state after mount: initTronWeb has run.
Mounted ==
  /\ config \in Configs
  /\ tronWebRef = initTronWeb(config).ref
  /\ logs = IF recording
            THEN addLog(<<>>, initTronWeb(config).level,
                        initTronWeb(config).message)
            ELSE <<>>
  /\ heartbeatCountRef = 0
  /\ balance = 0
  /\ permission \in Permissions
  /\ multisigStatus = InitialStatus
  /\ isRunning = FALSE
  /\ intervalRef = FALSE
  /\ timers = 0
  /\ timerEnv = NoEnv
  /\ lastBalance = Null
  /\ polls = <<>>
  /\ runs = [i \in Slots |-> IdleRun]
  /\ currentSteps = <<>>
  /\ obs = NoObservation

Init ==
  /\ recording = FALSE
  /\ totals = NoTotals
  /\ Mounted
  /\ winTronLink = FALSE
  /\ winAddr = NoAddress
  /\ isAvailable = FALSE
  /\ tronLinkWeb = FALSE
  /\ isConnected = FALSE
  /\ approvingAddress = NoAddress
  /\ verifying = {}

\* The same with the wallet extension found at mount, unlocked on account
\* "A", and the activity log followed.
InitLog ==
  /\ recording = TRUE
  /\ totals = NoTotals
  /\ Mounted
  /\ winTronLink = TRUE
  /\ winAddr = "A"
  /\ isAvailable = TRUE
  /\ tronLinkWeb = TRUE
  /\ isConnected = TRUE
  /\ approvingAddress = "A"
  /\ verifying = IF tronWebRef THEN {"A"} ELSE {}

(* ----------------------------- history ------------------------------ *)
\* The amount of the forward a step schedules, 0 when it schedules none.
Scheduled ==
  IF \E i \in Slots : runs'[i].pc = "scheduled" /\ runs[i].pc # "scheduled"
  THEN LET i == CHOOSE i \in Slots :
                  runs'[i].pc = "scheduled" /\ runs[i].pc # "scheduled"
       IN runs'[i].receivedAmount
  ELSE 0

\* obs describes the observation processed last: the balance observed
\* (new), the one observed before it since monitoring was started (prev,
\* Null when there is none), the amount of the forward it scheduled, and
\* whether that start of monitoring followed a stopMonitoring.
startObserved ==
  /\ startMonitoring
  /\ obs' = IF polls' # polls
            THEN [NoObservation EXCEPT
                    !.restart = ~intervalRef /\ timerEnv # NoEnv]
            ELSE obs

monitorObserved(k, ok) ==
  /\ monitorBalance(k, ok)
  /\ obs' = IF ok THEN [prev |-> obs.new, new |-> balance,
                        amount |-> Scheduled, restart |-> obs.restart]
            ELSE obs

\* A poll that finds an increase over the balance its closure holds.
Detects(k, ok) ==
  /\ k \in DOMAIN polls
  /\ ok
  /\ polls[k].lastBalance # Null
  /\ balance > polls[k].lastBalance

(* ------------------------- next-state relations ---------------------- *)
\* The wallet extension appears, is looked up, and the multisig status of
\* the receiving account is verified against its account.
Connect ==
  \/ \E a \in Accounts \cup {NoAddress} : Inject(a)
  \/ checkTronLink
  \/ \E a \in Accounts, ok \in BOOLEAN : verifyMultisigSetup(a, ok)

\* The continuations of run i up to the request to the wallet, and from
\* the wallet's answer on, the awaited calls answering from the given sets.
StepsToSign(i, Oks, MultiSigned) ==
  \/ afterRetryDelay(i)
  \/ \E ok \in Oks : afterGetBalance(i, ok)
  \/ \E ok \in Oks : afterSendTrx(i, ok)
  \/ \E ok \in Oks : afterGetAccount(i, ok)
  \/ \E ok \in MultiSigned : afterMultiSign(i, ok)

StepsFromSign(i, Oks, Signed, Sent) ==
  \/ \E res \in Signed : afterSignTransaction(i, res)
  \/ \E res \in Sent, fee \in 0..MaxFee : afterSendRawTransaction(i, res, fee)
  \/ \E ok \in Oks : afterConfirmBalance(i, ok)

Steps(i) ==
  \/ StepsToSign(i, BOOLEAN, BOOLEAN)
  \/ StepsFromSign(i, BOOLEAN, SignerResults,
                   {"accepted", "rejected", "throw"})

\* Every answer of every collaborator; an increase is detected when no
\* earlier forward is pending or under way.
Next ==
  \/ Connect
  \/ startMonitoring /\ UNCHANGED obs
  \/ stopMonitoring
  \/ Tick
  \/ \E k \in 1..MaxPolls, ok \in BOOLEAN :
       /\ Detects(k, ok) => \A j \in Slots : Free(runs[j])
       /\ monitorBalance(k, ok)
       /\ UNCHANGED obs
  \/ \E d \in 1..MaxDeposit : Deposit(d)
  \/ \E i \in Slots : forwardWithMultisig(i)
  \/ \E i \in Slots : Steps(i)

Spec == Init /\ [][Next]_vars

\* The same, with the observations recorded.
NextObserved ==
  \/ Connect
  \/ startObserved
  \/ stopMonitoring
  \/ Tick
  \/ \E k \in 1..MaxPolls, ok \in BOOLEAN :
       /\ Detects(k, ok) => \A j \in Slots : Free(runs[j])
       /\ monitorObserved(k, ok)
  \/ \E d \in 1..MaxDeposit : Deposit(d)
  \/ \E i \in Slots : forwardWithMultisig(i)
  \/ \E i \in Slots : Steps(i)

SpecObserved == Init /\ [][NextObserved]_vars

\* The wallet's approval stays pending: no signTransaction returns, and of
\* the calls before it only multiSign may fail.  Increases are detected and
\* pending forwards entered whatever else is under way.
NextPending ==
  \/ Connect
  \/ startMonitoring /\ UNCHANGED obs
  \/ stopMonitoring
  \/ Tick
  \/ \E k \in 1..MaxPolls, ok \in BOOLEAN :
       monitorBalance(k, ok) /\ UNCHANGED obs
  \/ \E d \in 1..MaxDeposit : Deposit(d)
  \/ \E i \in Slots : forwardWithMultisig(i)
  \/ \E i \in Slots : StepsToSign(i, {TRUE}, BOOLEAN)

SpecPending == Init /\ [][NextPending]_vars

\* The owner of the receiving account replaces its active permission.
updatePermission(p) ==
  /\ p # permission
  /\ permission' = p
  /\ UNCHANGED <<logs, balance, obs, heartbeatCountRef, walletVars, fixedVars,
                 totals, verifyVars, monVars, runs, currentSteps>>

\* The wallet changes accounts and the account's permission changes while
\* monitoring goes on; forwarding runs are followed up to their first
\* balance query, and an increase is detected when no earlier forward is
\* pending or under way.
NextAccounts ==
  \/ Connect
  \/ \E a \in Accounts \cup {NoAddress} : handleAccountChange(a)
  \/ \E p \in Permissions : updatePermission(p)
  \/ startMonitoring /\ UNCHANGED obs
  \/ stopMonitoring
  \/ Tick
  \/ \E k \in 1..MaxPolls, ok \in BOOLEAN :
       /\ Detects(k, ok) => \A j \in Slots : Free(runs[j])
       /\ monitorBalance(k, ok)
       /\ UNCHANGED obs
  \/ \E d \in 1..MaxDeposit : Deposit(d)
  \/ \E i \in Slots : forwardWithMultisig(i)

SpecAccounts == Init /\ [][NextAccounts]_vars

\* A tick fires while the query of an earlier one is still awaited, and the
\* queries answer in any order; forwarding runs are followed up to their
\* first balance query.
NextOverlap ==
  \/ Connect
  \/ startMonitoring /\ UNCHANGED obs
  \/ stopMonitoring
  \/ TickWithin(MaxInFlight)
  \/ \E k \in 1..MaxInFlight, ok \in BOOLEAN :
       monitorBalance(k, ok) /\ UNCHANGED obs
  \/ \E d \in 1..MaxDeposit : Deposit(d)
  \/ \E i \in Slots : forwardWithMultisig(i)

SpecOverlap == Init /\ [][NextOverlap]_vars

\* The account's permission changes while forwards are under way; they are
\* followed up to the request to the wallet, and an increase is detected
\* when no earlier forward is pending or under way.
NextKeys ==
  \/ Connect
  \/ \E p \in Permissions : updatePermission(p)
  \/ startMonitoring /\ UNCHANGED obs
  \/ stopMonitoring
  \/ Tick
  \/ \E k \in 1..MaxPolls, ok \in BOOLEAN :
       /\ Detects(k, ok) => \A j \in Slots : Free(runs[j])
       /\ monitorBalance(k, ok)
       /\ UNCHANGED obs
  \/ \E d \in 1..MaxDeposit : Deposit(d)
  \/ \E i \in Slots : forwardWithMultisig(i)
  \/ \E i \in Slots : StepsToSign(i, {TRUE}, BOOLEAN)

SpecKeys == Init /\ [][NextKeys]_vars

\* The wallet connection alone: the extension appears, the wallet changes
\* accounts, locks and unlocks, connect and disconnect are called, and the
\* verifications of the multisig setup answer in any order.
NextWallet ==
  \/ Connect
  \/ \E a \in Accounts \cup {NoAddress} : handleAccountChange(a)
  \/ \E granted \in BOOLEAN : connect(granted)
  \/ disconnect

SpecWallet == Init /\ [][NextWallet]_vars

\* Monitoring cannot start (the configuration is bad, or the verification
\* of the multisig setup has not answered): the operator presses Start and
\* Clear, and the log is followed.
NextLog ==
  \/ logs[1].id < MaxLogged /\ startMonitoring /\ UNCHANGED obs
  \/ logs[1].id < MaxLogged /\ clearLogs

SpecLog == InitLog /\ [][NextLog]_vars

\* Monitoring with the activity log followed, from a connected wallet: the
\* operator starts it when it is stopped, and stops it when it runs and its
\* timer holds no baseline yet; balance queries fail or answer, the wallet's
\* approval stays pending, and of the calls before it only multiSign may
\* fail.
NextPolling ==
  \/ \E ok \in BOOLEAN : verifyMultisigSetup("A", ok)
  \/ /\ logs[1].id < MaxPollEntries
     /\ ~isRunning /\ StartRefusal = <<>>
     /\ startMonitoring
     /\ UNCHANGED obs
  \/ /\ logs[1].id < MaxPollEntries
     /\ isRunning /\ timerEnv.lastBalance = Null
     /\ stopMonitoring
  \/ Tick
  \/ \E k \in 1..MaxPolls, ok \in BOOLEAN :
       /\ logs[1].id < MaxPollEntries
       /\ Detects(k, ok) => \A j \in Slots : Free(runs[j])
       /\ monitorBalance(k, ok)
       /\ UNCHANGED obs
  \/ \E d \in 1..MaxDeposit : Deposit(d)
  \/ \E i \in Slots : forwardWithMultisig(i)
  \/ \E i \in Slots : StepsToSign(i, {TRUE}, BOOLEAN)

SpecPolling == InitLog /\ [][NextPolling]_vars

\* The same with every awaited call answering and the wallet's approval
\* pending for good: the polls go on, whatever forward is under way.  The
\* operator stops a monitoring whose timer holds no baseline yet and starts
\* it again, and a scheduled forward is entered when none is under way.
NextHeartbeat ==
  \/ verifyMultisigSetup("A", TRUE)
  \/ /\ logs[1].id < MaxBeatEntries
     /\ ~isRunning /\ StartRefusal = <<>>
     /\ startMonitoring
     /\ UNCHANGED obs
  \/ /\ logs[1].id < MaxBeatEntries
     /\ isRunning /\ timerEnv.lastBalance = Null
     /\ stopMonitoring
  \/ Tick
  \/ \E k \in 1..MaxPolls :
       /\ logs[1].id < MaxBeatEntries
       /\ monitorBalance(k, TRUE)
       /\ UNCHANGED obs
  \/ \E d \in 1..MaxDeposit : Deposit(d)
  \/ \E i \in Slots :
       /\ \A j \in Slots : ~Active(runs[j])
       /\ forwardWithMultisig(i)
  \/ \E i \in Slots : afterGetBalance(i, TRUE)
  \/ \E i \in Slots : afterSendTrx(i, TRUE)
  \/ \E i \in Slots : afterGetAccount(i, TRUE)
  \/ \E i \in Slots : afterMultiSign(i, TRUE)

SpecHeartbeat == InitLog /\ [][NextHeartbeat]_vars

\* What the wallet returns when the user approves: both signatures.
Approved == [kind |-> "tx", len |-> 2 * SigLen]

\* Forwarding with the activity log followed: the polls are over once the
\* log has MaxRunEntries entries, an increase is detected when no forward is
\* pending or under way, the wallet approves, the broadcast is accepted,
\* rejected or fails, the balance is read again or not, and every other
\* call answers.
NextForward ==
  \/ verifyMultisigSetup("A", TRUE)
  \/ /\ logs[1].id < MaxRunEntries
     /\ ~isRunning /\ StartRefusal = <<>>
     /\ startMonitoring
     /\ UNCHANGED obs
  \/ /\ logs[1].id < MaxRunEntries
     /\ isRunning /\ timerEnv.lastBalance = Null
     /\ stopMonitoring
  \/ logs[1].id < MaxRunEntries /\ Tick
  \/ \E k \in 1..MaxPolls :
       /\ Detects(k, TRUE) => \A j \in Slots : Free(runs[j])
       /\ monitorBalance(k, TRUE)
       /\ UNCHANGED obs
  \/ \E d \in 1..MaxDeposit : Deposit(d)
  \/ \E i \in Slots : forwardWithMultisig(i)
  \/ \E i \in Slots : afterRetryDelay(i)
  \/ \E i \in Slots : afterGetBalance(i, TRUE)
  \/ \E i \in Slots : afterSendTrx(i, TRUE)
  \/ \E i \in Slots : afterGetAccount(i, TRUE)
  \/ \E i \in Slots : afterMultiSign(i, TRUE)
  \/ \E i \in Slots : StepsFromSign(i, BOOLEAN, {Approved},
                                     {"accepted", "rejected", "throw"})

SpecForward == InitLog /\ [][NextForward]_vars

ActiveRuns == {i \in Slots : Active(runs[i])}

\* Monitoring with the deposits and the forwards added up, from a connected
\* wallet: every call answers, the wallet approves, the broadcast is
\* accepted or rejected, a forward is entered when no other is under way,
\* and the deposits after the first seeding sum to MaxDeposited at most.
InitTotals ==
  /\ recording = FALSE
  /\ totals = [NoTotals EXCEPT !.counting = TRUE]
  /\ Mounted
  /\ winTronLink = TRUE
  /\ winAddr = "A"
  /\ isAvailable = TRUE
  /\ tronLinkWeb = TRUE
  /\ isConnected = TRUE
  /\ approvingAddress = "A"
  /\ verifying = IF tronWebRef THEN {"A"} ELSE {}

NextTotals ==
  \/ verifyMultisigSetup("A", TRUE)
  \/ ~isRunning /\ StartRefusal = <<>> /\ startMonitoring /\ UNCHANGED obs
  \/ isRunning /\ stopMonitoring
  \/ Tick
  \/ \E k \in 1..MaxPolls : monitorBalance(k, TRUE) /\ UNCHANGED obs
  \/ \E d \in 1..MaxDeposit :
       totals.deposited + d <= MaxDeposited /\ Deposit(d)
  \/ \E i \in Slots : ActiveRuns = {} /\ forwardWithMultisig(i)
  \/ \E i \in Slots : StepsToSign(i, {TRUE}, {TRUE})
  \/ \E i \in Slots : StepsFromSign(i, BOOLEAN, {Approved},
                                     {"accepted", "rejected"})

SpecTotals == InitTotals /\ [][NextTotals]_vars

(* ----------------------------- properties --------------------------- *)
\* C1: at most one forwarding run (an invocation of forwardWithMultisig
\* that passed its connection guard and has not returned) is active at any
\* time.
C1_SingleActiveRun == Cardinality(ActiveRuns) <= 1

\* C2: an increase detected while a run is active is deferred: the forward
\* scheduled for it is entered only when no run is active.
C2_DeferredWhileActive ==
  [][\A i \in Slots :
       (runs[i].pc = "scheduled" /\ runs[i].duringRun /\ Active(runs'[i]))
         => ActiveRuns = {}]_vars

\* C3: the first observation after a start schedules no forwarding run.
C3_FirstObservationSeedsOnly ==
  (obs.new # Null /\ obs.prev = Null) => obs.amount = 0

\* C4: an observation higher than the observation before it schedules one
\* forwarding run, for the difference of the two.
C4_IncreaseStartsRun ==
  (obs.prev # Null /\ obs.new > obs.prev) => obs.amount = obs.new - obs.prev

\* C5: an observation equal to the observation before it (no new deposit)
\* schedules no forwarding run: a delta is detected once.
C5_SameBalanceNoRun ==
  (obs.prev # Null /\ obs.new = obs.prev) => obs.amount = 0

C6_Built ==
  \A i \in Slots :
    LET r == runs[i]
        amount == Min(r.receivedAmount, Max(0, r.currentBalance - FeeReserve))
    IN /\ (r.built /\ r.pc # "done")
             => r.forwardAmount = amount /\ r.forwardAmount > 0
       /\ r.outcome = "insufficient" => amount <= 0 /\ ~r.built
       /\ r.bcast => r.built

C6_Build ==
  \A i \in Slots :
    (runs[i].pc = "getBalance" /\ runs'[i].built)
      => /\ runs'[i].currentBalance = balance
         /\ runs'[i].forwardAmount =
              Min(runs[i].receivedAmount, Max(0, balance - FeeReserve))
         /\ runs'[i].forwardAmount > 0

\* C6: in every attempt the amount of the built transfer is
\* min(detectedAmount, max(0, currentBalance - feeReserve)) for the balance
\* read in that attempt, and when that is <= 0 nothing is built, signed or
\* broadcast.
C6_ForwardAmount == []C6_Built /\ [][C6_Build]_vars

C6_Witness ==
  \E i \in Slots :
    /\ runs[i].pc = "sendTrx"
    /\ runs[i].attempts > 0
    /\ runs[i].forwardAmount < runs[i].receivedAmount

\* C7: a run makes at most 3 attempts: after the third failure it returns
\* as failed without a fourth, and a run that completed made at most 3.
C7_AtMostThreeAttempts ==
  \A i \in Slots :
    LET r == runs[i] IN
    /\ r.nStarted <= 3
    /\ r.attempts <= r.nStarted
    /\ r.outcome = "failed" => r.attempts = 3
    /\ r.attempts >= 3 => r.pc = "done" /\ r.outcome = "failed"

C7_Witness ==
  \E i \in Slots :
    runs[i].outcome = "failed" /\ runs[i].attempts = 3 /\ runs[i].nStarted = 3

\* C8: when the wallet cancels, fails or returns malformed output, the
\* attempt fails and is retried or, after the third, the run fails; no
\* broadcast is issued in that attempt, and none at all in a run whose
\* attempts all failed this way.
C8_SignerFailureNoBroadcast ==
  \A i \in Slots :
    LET r == runs[i] IN
    /\ r.signerBad =>
         /\ ~r.bcast
         /\ \/ r.pc = "retryDelay" /\ r.attempts < 3
            \/ r.pc = "done" /\ r.outcome = "failed"
    /\ (r.outcome = "failed" /\ ~r.otherFail) => ~r.everBcast

C8_Witness ==
  \E i \in Slots :
    /\ runs[i].outcome = "failed"
    /\ ~runs[i].otherFail
    /\ runs[i].signerBad
    /\ runs[i].signed.kind = "throw"

\* C9: a transaction is broadcast only if its signature payload length
\* divided by 65 is at least 2; one below that fails the attempt unbroadcast.
C9_BroadcastNeedsTwoSignatures ==
  \A i \in Slots :
    LET r == runs[i] IN
    /\ r.bcast => r.signed.kind = "tx" /\ r.signed.len # Null
                  /\ r.signed.len \div 65 >= 2
    /\ (r.signed.kind = "tx"
        /\ (r.signed.len = Null \/ r.signed.len \div 65 < 2))
         => ~r.bcast /\ r.pc \in {"retryDelay", "done"}

C9_Witness ==
  \E i \in Slots :
    /\ runs[i].pc = "sendRawTransaction"
    /\ runs[i].attempts > 0
    /\ runs[i].signed.len = 130

StepStatus(k) == currentSteps[k].status

\* C10: a step is active or completed only if every earlier step is
\* completed, and no step is completed or error while an earlier one is
\* active.
C10_StepOrder ==
  currentSteps # <<>> =>
    \A k \in DOMAIN currentSteps :
      /\ StepStatus(k) \in {"active", "completed"}
           => \A j \in 1..(k - 1) : StepStatus(j) = "completed"
      /\ StepStatus(k) = "active"
           => \A j \in (k + 1)..Len(currentSteps) :
                StepStatus(j) \notin {"completed", "error"}

\* The steps whose status a step of the program turns into `status`.
NewlyMarked(status) ==
  {k \in DOMAIN currentSteps \cap DOMAIN currentSteps' :
     currentSteps'[k].status = status /\ currentSteps[k].status # status}

\* C11: once a step of a run has been marked error, that run marks no step
\* completed any more, and once the run is completed (its confirm step is)
\* no step of it is marked error.
C11_TerminalOutcomesFinal ==
  [][/\ ((\E i \in Slots : Active(runs[i]))
          /\ \E k \in DOMAIN currentSteps : StepStatus(k) = "error")
         => NewlyMarked("completed") = {}
     /\ (currentSteps # <<>> /\ StepStatus(Len(currentSteps)) = "completed")
         => NewlyMarked("error") = {}]_vars

\* C12: when the balance read by an attempt (0 included) makes
\* forwardAmount <= 0, the run ends there as insufficient, with nothing
\* built, no step marked error and no attempt consumed.
C12_InsufficientIsNoError ==
  [][\A i \in Slots :
       LET read == runs'[i].currentBalance IN
       (/\ runs[i].pc = "getBalance"
        /\ runs'[i].pc = "retryDelay" \/ runs'[i].outcome = "insufficient"
        /\ read # Null
        /\ ForwardAmount(runs[i].receivedAmount, read) <= 0)
         => /\ runs'[i].outcome = "insufficient"
            /\ ~runs'[i].built
            /\ runs'[i].attempts = runs[i].attempts
            /\ NewlyMarked("error") = {}]_vars

\* C13: the status verifyMultisigSetup computed has isConfigured exactly
\* when threshold >= 2, keyCount >= 2 and the keys of the receiving account
\* and of the approving wallet are both in the permission's key list.
C13_ConfiguredIffBothKeys ==
  multisigStatus.isConfigured
    <=> /\ multisigStatus.threshold >= 2
        /\ multisigStatus.keyCount >= 2
        /\ multisigStatus.hasReceivingKey
        /\ multisigStatus.hasApprovingKey

C15_NoRunUnlessConfigured ==
  [][\A i \in Slots :
       (runs[i].pc = "scheduled" /\ Active(runs'[i]))
         => multisigStatus.isConfigured]_vars

InitErrors == {"Missing configuration", "Failed to initialize TronWeb"}

\* C16: with a configuration that lacks the private key or the receiving
\* address, has an invalid address, or whose key does not match the
\* address, initTronWeb logs an error and sets no tronWebRef, and from then
\* on startMonitoring only refuses: no timer, no balance query, isRunning
\* false, and nothing but error entries (and the entry of clearLogs) logged.
C16_BadConfigNeverStarts ==
  config # ValidConfig =>
    /\ ~tronWebRef
    /\ ~isRunning
    /\ ~intervalRef
    /\ polls = <<>>
    /\ lastBalance = Null
    /\ \A k \in DOMAIN logs :
         \/ logs[k].level = "ERROR"
         \/ logs[k].message = "Log history cleared"
    /\ logs[Len(logs)].id = 1 =>
         \/ logs[Len(logs)].message = "Log history cleared"
         \/ logs[Len(logs)].message \in InitErrors

C16_Witness ==
  /\ ~config.keyMatchesAddress
  /\ isConnected
  /\ permission.threshold = 2
  /\ Len(logs) >= 3
  /\ logs[1].message = "Cannot start monitoring: TronWeb not initialized"
  /\ logs[Len(logs)].message = "Failed to initialize TronWeb"

C17_Inv ==
  /\ Len(logs) <= LogCap
  /\ \A k \in 1..(Len(logs) - 1) : logs[k].id = logs[k + 1].id + 1

C17_Append ==
  logs' # logs =>
    \/ Len(logs') = 1 /\ logs'[1].message = "Log history cleared"
    \/ /\ logs'[1].id = logs[1].id + 1
       /\ Len(logs') = Min(Len(logs) + 1, LogCap)
       /\ \A k \in 2..Len(logs') : logs'[k] = logs[k - 1]

\* C17: the log never holds more than 100 entries, and they are the most
\* recently appended ones, newest first: an append puts the new entry in
\* front of the old ones and, when that makes 101, drops the oldest.
C17_LogNewestFirstCapped == []C17_Inv /\ [][C17_Append]_vars

C17_Witness ==
  /\ Len(logs) = LogCap
  /\ logs[1].id = LogCap + 2
  /\ logs[LogCap].id = 3

\* C18: after stopMonitoring and then startMonitoring, the first observation
\* (that of the poll startMonitoring makes) seeds the baseline and schedules
\* no forwarding run.
C18_RestartSeedsOnly ==
  (obs.restart /\ obs.new # Null /\ obs.prev = Null) => obs.amount = 0

\* C19: while monitoring is stopped (from the return of stopMonitoring to
\* the next successful startMonitoring) no poll is started: no tick fires
\* and no balance query is issued by the poller.
C19_NoPollAfterStop ==
  [][(~isRunning /\ ~isRunning') => Len(polls') <= Len(polls)]_vars

C19_Witness ==
  /\ ~isRunning
  /\ timerEnv # NoEnv
  /\ lastBalance # Null
  /\ polls = <<>>
  /\ tronWebRef

\* C20: a run that is under way keeps its seven step records, whatever
\* stopMonitoring and startMonitoring do meanwhile.
C20_RunKeepsItsSteps ==
  (\E i \in Slots : Active(runs[i]))
    => /\ Len(currentSteps) = Len(StepIds)
       /\ \A k \in DOMAIN currentSteps : currentSteps[k].id = StepIds[k]

\* The timer that exists fires: its callback issues a balance query.
C21_TimerTicks == (intervalRef /\ Len(polls) < MaxPolls) => ENABLED Tick

C21_FailedPoll ==
  \A k \in 1..MaxPolls :
    monitorBalance(k, FALSE)
      => /\ logs'[1].level = "ERROR"
         /\ logs'[1].message = "Failed to update receiving wallet balance"
         /\ logs'[1].id = logs[1].id + 1
         /\ runs' = runs
         /\ lastBalance' = lastBalance
         /\ intervalRef' = intervalRef
         /\ timerEnv' = timerEnv

\* C21: when the balance query of a poll fails, an error entry is logged,
\* no run is scheduled or touched (no attempt of any run is consumed),
\* lastBalance stays as it is, and the timer stays as it is, so that its
\* next tick polls again.
C21_FailedPollSkips == []C21_TimerTicks /\ [][C21_FailedPoll]_vars

\* A poll failed while a run was under way, and the next tick has issued
\* its query.
C21_Witness ==
  /\ logs[1].message = "Failed to update receiving wallet balance"
  /\ \E i \in Slots : Active(runs[i]) /\ runs[i].attempts < maxRetries
  /\ intervalRef
  /\ polls # <<>>

Blocked == {i \in Slots : runs[i].pc = "signTransaction"}

\* While a run waits for the wallet, the timer that exists fires.
C29_TimerTicks ==
  (Blocked # {} /\ intervalRef /\ Len(polls) < MaxPolls) => ENABLED Tick

\* A run that waits for the wallet stays where it is, and a poll that
\* answers meanwhile is processed: the heartbeat is counted and logged at
\* the twentieth, and lastBalance becomes a balance that differs from the
\* one the poll compared with.
C29_Step ==
  Blocked # {} =>
    /\ \A i \in Blocked : runs'[i] = runs[i]
    /\ \A k \in DOMAIN polls :
         monitorBalance(k, TRUE) =>
           /\ heartbeatCountRef' = (heartbeatCountRef + 1) % HeartbeatEvery
           /\ heartbeatCountRef' = 0 =>
                \E n \in DOMAIN logs' :
                  /\ logs'[n].id > logs[1].id
                  /\ logs'[n].message = "Monitoring active"
           /\ balance # polls[k].lastBalance => lastBalance' = balance

\* C29: while a run is blocked in the call of the external signer, the
\* timer goes on firing and the polls that answer are processed (balance
\* read, baseline updated, heartbeats logged), and the blocked run takes no
\* step.
C29_PollsWhileSignerPending == []C29_TimerTicks /\ [][C29_Step]_vars

\* A heartbeat was logged after the wallet had been asked, and the run
\* still waits for it.
C29_Witness ==
  /\ Blocked # {}
  /\ \E n, m \in DOMAIN logs :
       /\ n < m
       /\ logs[n].message = "Monitoring active"
       /\ logs[m].message = "Requesting second signature"

C22_OneInFlight == Len(polls) <= 1

C22_InOrder == Len(polls') < Len(polls) => polls' = Tail(polls)

\* C22: at most one balance query of the poller is in flight at any time (a
\* tick that fires before the previous query returned waits for it), and
\* the queries are answered and applied to lastBalance in the order of
\* their ticks.
C22_SerializedPolls == []C22_OneInFlight /\ [][C22_InOrder]_vars

\* The entries logged since the last detection, newest first.
SinceDetection(log) ==
  LET found == {n \in DOMAIN log : log[n].level = "DETECTION"} IN
  IF found = {} THEN log
  ELSE SubSeq(log, 1, (CHOOSE n \in found : \A m \in found : n <= m) - 1)

Count(log, message) ==
  Cardinality({n \in DOMAIN log : log[n].message = message})

C24_ExhaustedRunNotRetried ==
  [][((\E i \in Slots : runs[i].outcome = "failed") /\ Scheduled > 0)
       => /\ obs'.prev # Null
          /\ obs'.new > obs'.prev
          /\ Scheduled = obs'.new - obs'.prev]_vars

NoSignature == [kind |-> "none", len |-> Null]

\* Within an attempt the transaction is built from this attempt's balance
\* before it is signed, and signed by the wallet before it is broadcast.
C25_Fresh ==
  \A i \in Slots :
    LET r == runs[i] IN
    /\ r.pc = "getBalance" => ~r.built /\ ~r.bcast /\ r.forwardAmount = 0
    /\ r.pc \in {"getBalance", "sendTrx", "getAccount", "multiSign"}
         => r.signed = NoSignature
    /\ r.pc \in {"sendTrx", "getAccount", "multiSign", "signTransaction"}
         => r.built /\ ~r.bcast
    /\ r.pc \in {"sendRawTransaction", "confirm"}
         => r.built /\ r.bcast /\ r.signed.kind = "tx"

\* The step after a failed attempt's delay starts the next attempt at its
\* balance query, with no transaction and no signature.
C25_Restart ==
  \A i \in Slots :
    (runs[i].pc = "retryDelay" /\ runs'[i] # runs[i])
      => /\ runs'[i].pc = "getBalance"
         /\ runs'[i].nStarted = runs[i].nStarted + 1
         /\ runs'[i].forwardAmount = 0
         /\ runs'[i].signed = NoSignature
         /\ ~runs'[i].built

\* C25: after a failure at any step of attempt k < 3 the next attempt
\* starts over: it reads the balance again, computes forwardAmount from it
\* and builds a new transaction, and neither reuses the transaction or the
\* signatures of the attempt before nor resumes at the step that failed.
C25_RetryFromCreate == []C25_Fresh /\ [][C25_Restart /\ C6_Build]_vars

\* An attempt failed at the broadcast, and the next one awaits its balance.
C25_Witness ==
  \E i \in Slots :
    /\ runs[i].pc = "getBalance"
    /\ runs[i].attempts = 1
    /\ runs[i].everBcast
    /\ runs[i].signed = NoSignature

\* The wallet has been asked in at most every attempt started, and not
\* yet in an attempt that has not reached its signTransaction call.
C26_Asked ==
  \A i \in Slots :
    LET r == runs[i] IN
    /\ r.nSign <= r.nStarted
    /\ r.nSign <= maxRetries
    /\ r.pc \in {"getBalance", "sendTrx", "getAccount", "multiSign"}
         => r.nSign < r.nStarted

\* The wallet is asked by the step that follows the local signature.
C26_Ask ==
  \A i \in Slots :
    runs'[i].nSign # runs[i].nSign
      => \/ runs'[i].pc = "scheduled" /\ runs'[i].nSign = 0
         \/ /\ afterMultiSign(i, TRUE)
            /\ runs'[i].nSign = runs[i].nSign + 1
            /\ runs'[i].pc = "signTransaction"

\* C26: in one attempt the external signer is invoked at most once, and
\* only after the local signature has been applied, so that a run invokes
\* it at most 3 times.
C26_SignerOncePerAttempt == []C26_Asked /\ [][C26_Ask]_vars

\* The wallet is being asked for the third time in a run.
C26_Witness ==
  \E i \in Slots :
    /\ runs[i].pc = "signTransaction"
    /\ runs[i].nSign = maxRetries
    /\ runs[i].attempts = 2

\* C27: a run that returns has no step left active: it ends completed
\* (its confirm step is) or in error (its retries are exhausted), also when
\* the balance cannot be read again after an accepted broadcast.
C27_NoReturnWithActiveStep ==
  [][\A i \in Slots :
       (Active(runs[i]) /\ runs'[i].pc = "done")
         => /\ runs'[i].outcome \in {"completed", "failed", "insufficient"}
            /\ \A k \in DOMAIN currentSteps' :
                 currentSteps'[k].status # "active"]_vars

\* A start that is not refused issues a balance query in the same step in
\* which it sets the timer.
C28_Start ==
  ((startMonitoring /\ StartRefusal = <<>>) \/ (isRunning' /\ ~isRunning))
    => /\ polls' = Append(polls, CurrentEnv)
       /\ intervalRef'
       /\ timerEnv' = CurrentEnv
       /\ isRunning'

\* Every firing of the timer issues one query, and nothing else issues any.
C28_Tick ==
  /\ Tick => polls' = Append(polls, timerEnv)
  /\ Len(polls') > Len(polls)
       => \/ startMonitoring /\ StartRefusal = <<>>
          \/ Tick

\* C28: a successful startMonitoring issues the first balance query at
\* once, before the timer it sets has fired, and afterwards the timer
\* issues one query at each firing.
C28_FirstQueryAtStart == [][C28_Start /\ C28_Tick]_vars

\* Monitoring has just come up after a stop: its query is awaited and no
\* baseline is set.
C28_Witness ==
  /\ isRunning
  /\ intervalRef
  /\ polls = <<timerEnv>>
  /\ timerEnv.lastBalance # Null
  /\ lastBalance = Null

\* C30: the key index with which the local signature is requested is the
\* position (from 0) of the monitored address in the key list of the
\* permission just fetched, whenever that list contains it; it is 0 then
\* only if the address is the first key.
C30_KeyIndexIsPosition ==
  [][\A i \in Slots :
       (afterGetAccount(i, TRUE)
        /\ HasKey(permission.keys, ReceivingAddress))
         => LET index == runs'[i].keyIndex IN
            /\ runs'[i].pc = "multiSign"
            /\ index + 1 \in DOMAIN permission.keys
            /\ permission.keys[index + 1] = ReceivingAddress
            /\ \A j \in 1..index : permission.keys[j] # ReceivingAddress
            /\ index = 0 => permission.keys[1] = ReceivingAddress]_vars

\* The local signature is requested with index 1, the monitored address
\* being the second key.
C30_Witness ==
  \E i \in Slots :
    /\ runs[i].pc = "multiSign"
    /\ runs[i].keyIndex = 1
    /\ permission.keys = <<"A", ReceivingAddress>>

\* C31: while a wallet address is connected and no verification is awaited,
\* what multisigStatus says of the approving key is about that address:
\* hasApprovingKey only if the connected address is a key of the permission.
C31_StatusOfCurrentAddress ==
  (tronWebRef /\ verifying = {} /\ approvingAddress # NoAddress)
    => (multisigStatus.hasApprovingKey
          => HasKey(permission.keys, approvingAddress))

\* C38: isConnected is true exactly when approvingAddress is non-empty,
\* and then the wallet's tronWeb is held, so that signTransaction does not
\* throw 'TronLink not connected'.
C38_ConnectedIffAddress ==
  /\ isConnected <=> approvingAddress # NoAddress
  /\ isConnected => tronLinkWeb

\* C39: after clearLogs the activity log holds exactly one entry, the INFO
\* entry 'Log history cleared'; everything logged before is gone.
C39_ClearLeavesOneEntry ==
  [][clearLogs => /\ Len(logs') = 1
                  /\ logs'[1].level = "INFO"
                  /\ logs'[1].message = "Log history cleared"]_vars

C39_Witness ==
  /\ recording
  /\ Len(logs) = 1
  /\ logs[1].message = "Log history cleared"

\* C36: the validate step never fails. No state shows it in error (or left
\* active); a run goes on to broadcast only with a payload of at least 130
\* characters, which counts at least 2 signatures; and a payload below that
\* is reported on the sign2 step.
C36_ValidateNotFailed ==
  \A k \in DOMAIN currentSteps :
    currentSteps[k].id = "validate"
      => StepStatus(k) \in {"pending", "completed"}

C36_Signed ==
  \A i \in Slots :
    (runs[i].pc = "signTransaction" /\ runs'[i] # runs[i]) =>
      LET len == runs'[i].signed.len IN
      /\ runs'[i].pc = "sendRawTransaction"
           => len >= MinSigPayload /\ len \div SigLen >= 2
      /\ (runs'[i].signed.kind = "tx" /\ ~HasRequiredSignatures(len))
           => \A k \in DOMAIN currentSteps' :
                currentSteps'[k].id = "sign2"
                  => currentSteps'[k].status = "error"

C36_ValidateNeverFails == []C36_ValidateNotFailed /\ [][C36_Signed]_vars

C36_Witness ==
  \E i \in Slots :
    /\ runs[i].signed = [kind |-> "tx", len |-> MinSigPayload - 1]
    /\ runs[i].pc = "retryDelay"
    /\ \E k \in DOMAIN currentSteps :
         currentSteps[k].id = "sign2" /\ StepStatus(k) = "error"
    /\ \E k \in DOMAIN currentSteps :
         currentSteps[k].id = "validate" /\ StepStatus(k) = "pending"

\* C35: a forwarding run begins only while monitoring is running: the
\* forward that monitorBalance scheduled is not entered after
\* stopMonitoring.
C35_NoRunAfterStop ==
  [][\A i \in Slots :
       (runs[i].pc = "scheduled" /\ runs'[i].pc # "scheduled")
         => isRunning]_vars

\* C37: whatever starts (also repeated and refused ones) and stops were
\* called, at most one poll timer exists, and one exists exactly when
\* isRunning is true.
C37_OneTimerIffRunning ==
  /\ timers <= 1
  /\ timers >= 1 <=> isRunning
  /\ intervalRef <=> isRunning

\* Monitoring was started again while it was running or after a stop.
C37_Witness ==
  /\ isRunning
  /\ timers = 1
  /\ timerEnv.lastBalance # Null

C32_ConfirmAbsorbsNoDeposit ==
  [][\A i \in Slots :
       (runs[i].pc = "confirm" /\ runs'[i].outcome = "completed")
         => lastBalance' <= runs[i].currentBalance - runs[i].forwardAmount]_vars

\* C34: the amounts of the accepted broadcasts never sum to more than the
\* deposits that arrived after the baseline was first seeded.
C34_ForwardedWithinDeposits ==
  totals.counting => totals.forwarded <= totals.deposited

====
